---- MODULE Spec2Model ----
(***************************************************************************)
(* Model of differential_value_iteration:                                  *)
(*   experiments/evaluation_convergence.py  run()  (the sweep harness)     *)
(*   environments/structure.py  MarkovDecisionProcess.__post_init__        *)
(*   environments/garet.py      create()                                   *)
(*                                                                         *)
(* Real numbers are modelled exactly: the harness's change magnitudes are  *)
(* rationals [num, den]; probabilities are fixed-point integers with One   *)
(* standing for 1.0, plus the IEEE value NaN.                              *)
(***************************************************************************)
EXTENDS Integers, Sequences, FiniteSets, TLC

VARIABLES
  args,              \* run()'s parameters
  pc,                \* position in run()
  e, a, s,           \* positions of the three for-loop iterators
  initial_values,    \* the array np.zeros(...) made per environment
  inner_loop_range,
  converged,
  alg,               \* the algorithm instance of the current combination
  it,                \* position of the iterator of range(max_iters)
  i,                 \* loop variable i (Unbound until the loop binds it)
  change_summary,
  changes,           \* last value returned by alg.update()
  calls,             \* calls made on alg during the last round, in order
  reports,           \* combinations printed so far, in order
  saved,             \* number of np.save artifacts written
  gargs,             \* create()'s parameters and the draws of its random stream
  mdp,               \* the fields handed to MarkovDecisionProcess(...)
  mpc,               \* position in create() / __post_init__
  action_idx,        \* loop variable of __post_init__'s row-sum loop
  result             \* how the construction ended

hvars == <<args, pc, e, a, s, initial_values, inner_loop_range, converged,
           alg, it, i, change_summary, changes, calls, reports, saved>>

evars == <<gargs, mdp, mpc, action_idx, result>>

vars == <<hvars, evars>>

----------------------------------------------------------------------------
(* Bounds of the model. *)
MaxEnvs == 1
MaxAlgs == 1
MaxSteps == 2
MaxIters == 3
MaxStates == 2
MaxActions == 2

(* A Python name that no assignment has bound yet. *)
Unbound == -1

----------------------------------------------------------------------------
(* Exact arithmetic on the floats of run(). *)
Rat(n, d) == [num |-> n, den |-> d]
RatAdd(x, y) == [num |-> x.num * y.den + y.num * x.den, den |-> x.den * y.den]
RatDivInt(x, k) == [num |-> x.num, den |-> x.den * k]
RatLeq(x, y) == x.num * y.den <= y.num * x.den
RatEq(x, y) == x.num * y.den = y.num * x.den

Abs(x) == IF x < 0 THEN -x ELSE x

RECURSIVE SumAbs(_)
SumAbs(v) == IF v = <<>> THEN 0 ELSE Abs(Head(v)) + SumAbs(Tail(v))

Zeros(n) == [j \in 1..n |-> 0]

(* np.mean(np.abs(changes)) *)
MeanAbs(c) == Rat(SumAbs(c), Len(c))

----------------------------------------------------------------------------
(* The evaluation algorithm, an opaque collaborator of run(): update()     *)
(* returns the array of per-state changes, diverged() a boolean.  An       *)
(* instance either copies the initial values it is handed or keeps the     *)
(* array and updates it in place.                                          *)

(* The arrays update() may return for an environment of n states: no       *)
(* change, or a change of -1 to the first state.                           *)
ChangeSet(n) ==
  { Zeros(n), [j \in 1..n |-> IF j = 1 THEN -1 ELSE 0] }

NoAlg ==
  [id |-> 0, inplace |-> FALSE, updates |-> 0, dcalls |-> 0,
   rounds |-> 0, sawDiverged |-> FALSE, allZero |-> TRUE, allAbove |-> TRUE]

(* algorithm_constructor(mrp=..., initial_values=..., step_size=..., *)
(* synchronized=...): a fresh instance, handed the array initial_values. *)
Evaluation(n, inplace) ==
  [id |-> n, inplace |-> inplace, updates |-> 0,
   dcalls |-> 0, rounds |-> 0, sawDiverged |-> FALSE, allZero |-> TRUE,
   allAbove |-> TRUE]

RECURSIVE VecSum(_, _)
VecSum(cs, n) ==
  IF cs = <<>> THEN Zeros(n)
  ELSE LET r == VecSum(Tail(cs), n) IN [j \in 1..n |-> Head(cs)[j] + r[j]]

(* The in-place instance clips its estimates to [-1, 1]. *)
Clip(x) == IF x < -1 THEN -1 ELSE IF x > 1 THEN 1 ELSE x

(* What a round's updates do to the array the instance was handed: an      *)
(* in-place instance adds each update's changes to it, clipped.            *)
AfterUpdates(inst, values, cs) ==
  IF inst.inplace
  THEN LET d == VecSum(cs, Len(values))
       IN [j \in 1..Len(values) |-> Clip(values[j] + d[j])]
  ELSE values

(* No environment is being constructed. *)
EnvIdle ==
  /\ gargs = <<>>
  /\ mdp = <<>>
  /\ mpc = "idle"
  /\ action_idx = 0
  /\ result = <<>>

----------------------------------------------------------------------------
(* run(), evaluation_convergence.py lines 78-115. *)

Tolerances == {Rat(0, 1), Rat(1, 2)}

RECURSIVE Ascending(_)
Ascending(T) ==
  IF T = {} THEN <<>>
  ELSE LET m == CHOOSE x \in T : \A y \in T : x <= y
       IN <<m>> \o Ascending(T \ {m})

(* main() appends the selected environments in a fixed order (lines        *)
(* 159-169, at least one required).  An environment is modelled by its     *)
(* num_states; the j-th environment of the catalogue has j + 1 states.     *)
EnvironmentLists == {Ascending(T) : T \in (SUBSET (2..(MaxEnvs + 1))) \ {{}}}

Init ==
  /\ args \in [environments : EnvironmentLists,
               algorithm_constructors : {[j \in 1..k |-> j] : k \in 1..MaxAlgs},
               step_sizes : {[j \in 1..k |-> j] : k \in 1..MaxSteps},
               max_iters : 0..MaxIters,
               convergence_tolerance : Tolerances,
               synchronized : BOOLEAN,
               save_final_estimates : BOOLEAN]
  /\ pc = "env"
  /\ e = 0 /\ a = 0 /\ s = 0
  /\ initial_values = <<>>
  /\ inner_loop_range = 0
  /\ converged = FALSE
  /\ alg = NoAlg
  /\ it = 0
  /\ i = Unbound
  /\ change_summary = Rat(0, 1)
  /\ changes = <<>>
  /\ calls = <<>>
  /\ reports = <<>>
  /\ saved = 0
  /\ EnvIdle

(* inner_loop_range = 1 if synchronized else environment.num_states *)
InnerLoopRange(synchronized, num_states) ==
  IF synchronized THEN 1 ELSE num_states

(* np.zeros(environment.num_states) *)
InitialValues(num_states) == Zeros(num_states)

RECURSIVE Accumulate(_)
Accumulate(cs) ==
  IF cs = <<>> THEN Rat(0, 1)
  ELSE RatAdd(Accumulate(SubSeq(cs, 1, Len(cs) - 1)), MeanAbs(cs[Len(cs)]))

(* The accumulated change without the division by the number of updates. *)
ChangeSummaryUndivided(cs, inner) == Accumulate(cs)

(* change_summary after the inner loop and the division that follows it. *)
ChangeSummary(cs, inner) == RatDivInt(Accumulate(cs), inner)

(* The convergence test allowing a stop one round earlier. *)
ConvergedTestFromSecondRound(summary, tolerance, idx) ==
  RatLeq(summary, tolerance) /\ idx > 0

(* change_summary <= convergence_tolerance and i > 1 *)
ConvergedTest(summary, tolerance, idx) ==
  RatLeq(summary, tolerance) /\ idx > 1

(* The two breaks tested in the opposite order. *)
RoundOutcomeConvergenceFirst(d, conv) ==
  IF conv THEN "converged" ELSE IF d THEN "diverged" ELSE "continue"

(* The two breaks of a round, in the order the code tests them. *)
RoundOutcome(d, conv) ==
  IF d THEN "diverged" ELSE IF conv THEN "converged" ELSE "continue"

(* The calls one round makes on alg, with what each returned: the inner    *)
(* loop's updates, then diverged.                                          *)
RoundCalls(cs, d) ==
  [j \in 1..Len(cs) |-> [op |-> "update", ret |-> cs[j]]]
    \o <<[op |-> "diverged", ret |-> d]>>

(* The values the report line prints: Converged:{converged} after {i} iterations. *)
ReportLine == [converged |-> converged, iterations |-> i]

NextEnvironment ==
  /\ pc = "env"
  /\ \/ /\ e < Len(args.environments)
        /\ e' = e + 1
        /\ initial_values' = InitialValues(args.environments[e + 1])
        /\ inner_loop_range' =
             InnerLoopRange(args.synchronized, args.environments[e + 1])
        /\ a' = 0
        /\ pc' = "alg"
     \/ /\ e = Len(args.environments)
        /\ pc' = "done"
        /\ UNCHANGED <<e, a, initial_values, inner_loop_range>>
  /\ UNCHANGED <<args, s, converged, alg, it, i, change_summary, changes,
                 calls, reports, saved>>
  /\ UNCHANGED evars

NextConstructor ==
  /\ pc = "alg"
  /\ \/ /\ a < Len(args.algorithm_constructors)
        /\ a' = a + 1
        /\ s' = 0
        /\ pc' = "step"
     \/ /\ a = Len(args.algorithm_constructors)
        /\ pc' = "env"
        /\ UNCHANGED <<a, s>>
  /\ UNCHANGED <<args, e, initial_values, inner_loop_range, converged, alg,
                 it, i, change_summary, changes, calls, reports, saved>>
  /\ UNCHANGED evars

NextStepSize ==
  /\ pc = "step"
  /\ \/ /\ s < Len(args.step_sizes)
        /\ s' = s + 1
        /\ converged' = FALSE
        /\ \E inplace \in BOOLEAN :
             alg' = Evaluation(alg.id + 1, inplace)
        /\ it' = 0
        /\ calls' = <<>>
        /\ pc' = "rounds"
     \/ /\ s = Len(args.step_sizes)
        /\ pc' = "alg"
        /\ UNCHANGED <<s, converged, alg, it, calls>>
  /\ UNCHANGED <<args, e, a, initial_values, inner_loop_range, i,
                 change_summary, changes, reports, saved>>
  /\ UNCHANGED evars

(* One iteration of `for i in range(max_iters)`, lines 90-104. *)
Round ==
  /\ pc = "rounds"
  /\ it < args.max_iters
  /\ \E cs \in [1..inner_loop_range -> ChangeSet(Len(initial_values))],
        d \in BOOLEAN :
       LET summary == ChangeSummary(cs, inner_loop_range)
           conv == ConvergedTest(summary, args.convergence_tolerance, it)
           outcome == RoundOutcome(d, conv)
       IN /\ i' = it
          /\ it' = it + 1
          /\ changes' = cs[inner_loop_range]
          /\ change_summary' = summary
          /\ initial_values' = AfterUpdates(alg, initial_values, cs)
          /\ calls' = RoundCalls(cs, d)
          /\ alg' = [alg EXCEPT
                       !.updates = @ + inner_loop_range,
                       !.dcalls = @ + 1,
                       !.rounds = @ + 1,
                       !.sawDiverged = d,
                       !.allZero = @ /\ \A j \in 1..Len(cs) : cs[j] = Zeros(Len(cs[j])),
                       !.allAbove = @ /\ ~RatLeq(summary, args.convergence_tolerance)]
          /\ converged' = CASE outcome = "diverged" -> FALSE
                            [] outcome = "converged" -> TRUE
                            [] OTHER -> converged
          /\ pc' = IF outcome = "continue" THEN "rounds" ELSE "report"
  /\ UNCHANGED <<args, e, a, s, inner_loop_range, reports, saved>>
  /\ UNCHANGED evars

(* range(max_iters) is used up: the loop ends without a break. *)
Exhausted ==
  /\ pc = "rounds"
  /\ it >= args.max_iters
  /\ pc' = "report"
  /\ UNCHANGED <<args, e, a, s, initial_values, inner_loop_range, converged,
                 alg, it, i, change_summary, changes, calls, reports, saved>>
  /\ UNCHANGED evars

(* Lines 105-115: the print reads i, which is unbound when the loop body   *)
(* never ran; then the optional np.save.                                   *)
Report ==
  /\ pc = "report"
  /\ \/ /\ i = Unbound
        /\ pc' = "crashed"
        /\ UNCHANGED <<reports, saved>>
     \/ /\ i # Unbound
        /\ reports' = Append(reports, <<e, a, s>>)
        /\ saved' = IF args.save_final_estimates THEN saved + 1 ELSE saved
        /\ pc' = "step"
  /\ UNCHANGED <<args, e, a, s, initial_values, inner_loop_range, converged,
                 alg, it, i, change_summary, changes, calls>>
  /\ UNCHANGED evars

Next ==
  \/ NextEnvironment
  \/ NextConstructor
  \/ NextStepSize
  \/ Round
  \/ Exhausted
  \/ Report

Spec == Init /\ [][Next]_vars

----------------------------------------------------------------------------
(* Properties of run(). *)

Zero == Rat(0, 1)
NumStates == IF e = 0 THEN 0 ELSE args.environments[e]
UpdatesPerRound == IF args.synchronized THEN 1 ELSE NumStates

(* C1: when diverged() returns true at the check after the first round,    *)
(* the combination stops after that round and the report shows             *)
(* not-converged with iteration count 1, whatever max_iters >= 1 is.       *)
C1_DivergedFirstRoundReportsOne ==
  (alg.sawDiverged /\ alg.rounds = 1) =>
    /\ pc # "rounds"
    /\ pc = "report" => (ReportLine.converged = FALSE /\ ReportLine.iterations = 1)

C3_ExhaustionReportsMaxIters ==
  (pc = "report" /\ args.max_iters >= 1 /\ alg.allAbove /\ ~alg.sawDiverged) =>
    /\ alg.rounds = args.max_iters
    /\ ReportLine.converged = FALSE
    /\ ReportLine.iterations = args.max_iters

(* The cross-product in nested order: environments outermost, step sizes   *)
(* innermost.                                                              *)
CrossProduct(ne, na, ns) ==
  [k \in 1..(ne * na * ns) |->
     << ((k - 1) \div (na * ns)) + 1,
        (((k - 1) \div ns) % na) + 1,
        ((k - 1) % ns) + 1 >>]

(* C4: whatever the outcomes of the combinations, when run() ends every    *)
(* combination has been reported exactly once, in nested order.            *)
C4_SweepCompleteness ==
  (pc \in {"done", "crashed"}) =>
    reports = CrossProduct(Len(args.environments),
                           Len(args.algorithm_constructors),
                           Len(args.step_sizes))

(* C5: the array handed to every constructor is all zero, whatever earlier *)
(* instances did to the array they were handed.                            *)
C5_HandedVectorIsZero ==
  (pc = "rounds" /\ alg.rounds = 0) => initial_values = Zeros(NumStates)

(* C9: once diverged() has returned true the combination is over: it is    *)
(* reported not-converged even when that round's change is within the      *)
(* tolerance after more than one round, and no further update() or         *)
(* diverged() call is made on that instance.                               *)
C9_DivergenceIsTerminal ==
  /\ [](alg.sawDiverged => (pc # "rounds" /\ converged = FALSE))
  /\ [][(alg.sawDiverged /\ alg'.id = alg.id) =>
          (alg'.updates = alg.updates /\ alg'.dcalls = alg.dcalls)]_vars

C9_Witness ==
  /\ pc = "report" /\ alg.sawDiverged /\ converged = FALSE
  /\ RatLeq(change_summary, args.convergence_tolerance) /\ i > 1

RECURSIVE TotalAbsChange(_)
TotalAbsChange(cl) ==
  IF cl = <<>> THEN 0
  ELSE (IF Head(cl).op = "update" THEN SumAbs(Head(cl).ret) ELSE 0)
         + TotalAbsChange(Tail(cl))

(* C10: every round issues one update() in synchronized mode and           *)
(* num_states in asynchronous mode, then exactly one diverged(); the       *)
(* magnitude compared with the tolerance is the sum of the updates' mean   *)
(* absolute changes divided by the number of updates.                      *)
C10_RoundStructure ==
  (pc \in {"rounds", "report"} /\ alg.rounds >= 1) =>
    LET n == UpdatesPerRound
        magnitude == Rat(TotalAbsChange(calls), NumStates * n)
        within == RatLeq(magnitude, args.convergence_tolerance)
    IN /\ Len(calls) = n + 1
       /\ \A j \in 1..n : calls[j].op = "update"
       /\ calls[n + 1].op = "diverged"
       /\ alg.updates = alg.rounds * n
       /\ alg.dcalls = alg.rounds
       /\ RatEq(change_summary, magnitude)
       /\ (converged /\ pc = "report") => (within /\ i > 1)
       /\ (pc = "rounds") => ~(within /\ i > 1)

C10_Witness ==
  /\ pc = "report" /\ ~args.synchronized /\ NumStates = 2 /\ alg.rounds = 2
  /\ Len(calls) = 3 /\ calls[1].ret # calls[2].ret
  /\ change_summary.num # 0

----------------------------------------------------------------------------
(* Floating-point values of the environments: a fixed-point number of      *)
(* units, One units making 1.0, or NaN.                                    *)

(* _TRANSITION_SUM_TOLERANCE = 1e-5, in units of 1e-6. *)
TRANSITION_SUM_TOLERANCE == 10
One == 100000 * TRANSITION_SUM_TOLERANCE

F(v) == [nan |-> FALSE, v |-> v]
NaN == [nan |-> TRUE, v |-> 0]

FAdd(x, y) == IF x.nan \/ y.nan THEN NaN ELSE F(x.v + y.v)
FSub(x, y) == IF x.nan \/ y.nan THEN NaN ELSE F(x.v - y.v)
FAbs(x) == IF x.nan THEN NaN ELSE F(Abs(x.v))
(* Comparisons with NaN are false. *)
FGt(x, y) == ~x.nan /\ ~y.nan /\ x.v > y.v

RECURSIVE FSum(_)
FSum(row) == IF row = <<>> THEN F(0) ELSE FAdd(Head(row), FSum(Tail(row)))

DTypes == {"float32", "float64"}

----------------------------------------------------------------------------
(* MarkovDecisionProcess.__post_init__, structure.py lines 57-91.  An      *)
(* ndarray is [shape, dtype, data]; data is indexed from 1 here, the       *)
(* indices the error names are Python's, from 0.                           *)

NDArray(shape, dtype, data) == [shape |-> shape, dtype |-> dtype, data |-> data]

(* The first failing shape or dtype check, "ok" when all pass. *)
ShapeError(m) ==
  LET ts == m.transitions.shape
      rs == m.rewards.shape
  IN IF Len(ts) # 3 THEN "transitions_ndim"
     ELSE IF ts[2] # ts[3] THEN "transitions_not_AxSxS"
     ELSE IF Len(rs) # 2 THEN "rewards_ndim"
     ELSE IF ts[1] # rs[1] THEN "actions_mismatch"
     ELSE IF ts[2] # rs[2] THEN "states_mismatch"
     ELSE IF m.transitions.dtype # m.rewards.dtype THEN "dtype_mismatch"
     ELSE "ok"

(* np.abs(1 - transitions.sum(axis=-1)) for one state's row *)
StateProbabilityError(row) == FAbs(FSub(F(One), FSum(row)))

(* np.where(state_probability_errors > _TRANSITION_SUM_TOLERANCE, True, False) *)
FailedUnity(block) ==
  [st \in 1..Len(block) |->
     FGt(StateProbabilityError(block[st]), F(TRANSITION_SUM_TOLERANCE))]

(* np.argwhere(failed_unity): the failing states in ascending order. *)
BadStates(block) ==
  LET failed == FailedUnity(block)
  IN [k \in 1..Cardinality({st \in 1..Len(block) : failed[st]}) |->
        (CHOOSE st \in 1..Len(block) :
           failed[st] /\ Cardinality({u \in 1..st : failed[u]}) = k) - 1]

Raised(error, action, states) ==
  [raised |-> TRUE, error |-> error, action |-> action, states |-> states]

(* The values an entry of a transitions array takes in the model: 0, the   *)
(* two values nearest to 1 on either side of the tolerance, and NaN.       *)
EntryValues ==
  {F(0), F(One - TRANSITION_SUM_TOLERANCE),
   F(One + TRANSITION_SUM_TOLERANCE + 1), NaN}

Shapes(lo, hi) == UNION {[1..k -> 1..MaxStates] : k \in lo..hi}

Candidates ==
  {[transitions |-> NDArray(ts, td, <<>>), rewards |-> NDArray(rs, rd, <<>>)] :
     ts \in Shapes(2, 3), rs \in Shapes(1, 2), td \in DTypes, rd \in DTypes}

IllShaped == {m \in Candidates : ShapeError(m) # "ok"}

InitMDP ==
  /\ gargs = <<>>
  /\ \E na \in 1..MaxActions, ns \in 1..MaxStates :
       mdp \in {[transitions |-> NDArray(<<na, ns, ns>>, dt, d),
                 rewards |-> NDArray(<<na, ns>>, dt,
                                     [x \in 1..na |-> [st \in 1..ns |-> F(0)]])] :
                  dt \in DTypes,
                  d \in [1..na -> [1..ns -> [1..ns -> EntryValues]]]}
             \cup IllShaped
  /\ mpc = "post_init"
  /\ action_idx = 0
  /\ result = <<>>
  /\ args = <<>> /\ pc = "idle" /\ e = 0 /\ a = 0 /\ s = 0
  /\ initial_values = <<>> /\ inner_loop_range = 0 /\ converged = FALSE
  /\ alg = NoAlg /\ it = 0 /\ i = Unbound /\ change_summary = Rat(0, 1)
  /\ changes = <<>> /\ calls = <<>> /\ reports = <<>> /\ saved = 0

(* Lines 60-77: the shape and dtype checks. *)
CheckShapes ==
  /\ mpc = "post_init"
  /\ IF ShapeError(mdp) # "ok"
     THEN /\ result' = Raised(ShapeError(mdp), 0, <<>>)
          /\ mpc' = "raised"
     ELSE /\ result' = result
          /\ mpc' = "rows"
  /\ action_idx' = 0
  /\ UNCHANGED <<gargs, mdp>>
  /\ UNCHANGED hvars

(* Lines 80-91: one iteration of the loop over the actions. *)
CheckAction ==
  /\ mpc = "rows"
  /\ action_idx < mdp.transitions.shape[1]
  /\ LET bad_states == BadStates(mdp.transitions.data[action_idx + 1])
     IN IF bad_states # <<>>
        THEN /\ result' = Raised("row_sums", action_idx, bad_states)
             /\ mpc' = "raised"
             /\ action_idx' = action_idx
        ELSE /\ result' = result
             /\ mpc' = "rows"
             /\ action_idx' = action_idx + 1
  /\ UNCHANGED <<gargs, mdp>>
  /\ UNCHANGED hvars

(* The loop ends: __post_init__ returns and the instance exists. *)
Constructed ==
  /\ mpc = "rows"
  /\ action_idx = mdp.transitions.shape[1]
  /\ mpc' = "constructed"
  /\ result' = [raised |-> FALSE, error |-> "", action |-> 0, states |-> <<>>]
  /\ UNCHANGED <<gargs, mdp, action_idx>>
  /\ UNCHANGED hvars

NextMDP == CheckShapes \/ CheckAction \/ Constructed

SpecMDP == InitMDP /\ [][NextMDP]_vars

----------------------------------------------------------------------------
(* create(), garet.py lines 17-88.  The random stream derived from the     *)
(* seed is modelled by what it draws: for each of the num_states *         *)
(* num_actions flat rows, branching_factor distinct next states            *)
(* (jax.random.choice without replacement), branching_factor magnitudes    *)
(* in [0, 1) (jax.random.uniform) and branching_factor rewards             *)
(* (jax.random.normal).                                                    *)

RoundDiv(x, y) == (2 * x + y) \div (2 * y)

(* x / y in float32, for x and y in one unit; the quotient is in units of  *)
(* 1 / One, rounded to nearest.  The only zero divisor create() meets is   *)
(* 0 / 0.                                                                  *)
FDiv(x, y) ==
  IF x.nan \/ y.nan \/ y.v = 0 THEN NaN ELSE F(RoundDiv(x.v * One, y.v))

(* probability * reward: the reward a whole number, the product in units   *)
(* of 1 / One.                                                             *)
FMul(x, y) == IF x.nan \/ y.nan THEN NaN ELSE F(x.v * y.v)

RECURSIVE FDot(_, _)
FDot(u, v) ==
  IF u = <<>> THEN F(0)
  ELSE FAdd(FMul(Head(u), Head(v)), FDot(Tail(u), Tail(v)))

(* Values jax.random.uniform may return, in quarters: 0.0, 0.25, 0.5. *)
MagnitudeValues == {F(0), F(1), F(2)}

(* The draws of jax.random.choice(key, num_states, (b,), False). *)
DistinctStates(ns, b) ==
  {q \in [1..b -> 1..ns] : \A x, y \in 1..b : x # y => q[x] # q[y]}

(* The draws of jax.random.normal: a different whole reward for every      *)
(* branch of every row, of either sign.                                    *)
RewardDraws(n, b) ==
  [k \in 1..n |-> [x \in 1..b |->
     F((IF (k + x) % 2 = 0 THEN 1 ELSE -1) * (b * (k - 1) + x))]]

(* Lines 43-48: each row's magnitudes divided by their sum. *)
Normalize(magnitudes) ==
  [x \in 1..Len(magnitudes) |-> FDiv(magnitudes[x], FSum(magnitudes))]

(* Lines 57-72: zeros, with values[x] set at column next_states[x]. *)
Scatter(ns, next_states, values) ==
  [col \in 1..ns |->
     IF \E x \in 1..Len(next_states) : next_states[x] = col
     THEN values[CHOOSE x \in 1..Len(next_states) : next_states[x] = col]
     ELSE F(0)]

(* flat.reshape((num_states, num_actions, num_states)) *)
Reshape(flat, ns, na) ==
  [st \in 1..ns |-> [ac \in 1..na |-> flat[(st - 1) * na + ac]]]

(* jnp.swapaxes(m, 0, 1) *)
SwapAxes(m, ns, na) == [ac \in 1..na |-> [st \in 1..ns |-> m[st][ac]]]

(* np.array(x, dtype=dtype) of a float32 jax array: the result has the      *)
(* requested element type; every float32 value (NaN included) is kept, as  *)
(* float32 and float64 both represent it.                                  *)
Cast(x, dtype) == [x EXCEPT !.dtype = dtype]

Create(g) ==
  LET ns == g.num_states
      na == g.num_actions
      next_state_probs_flat == [k \in 1..(ns * na) |-> Normalize(g.magnitudes[k])]
      transition_matrix_flat ==
        [k \in 1..(ns * na) |->
           Scatter(ns, g.next_states[k], next_state_probs_flat[k])]
      reward_matrix_flat ==
        [k \in 1..(ns * na) |-> Scatter(ns, g.next_states[k], g.rewards[k])]
      transition_matrix == Reshape(transition_matrix_flat, ns, na)
      reward_matrix == Reshape(reward_matrix_flat, ns, na)
      reward_matrix_marginalized ==
        [st \in 1..ns |-> [ac \in 1..na |->
           FDot(transition_matrix[st][ac], reward_matrix[st][ac])]]
  IN [transitions |->
        Cast(NDArray(<<na, ns, ns>>, "float32",
                     SwapAxes(transition_matrix, ns, na)), g.dtype),
      rewards |->
        Cast(NDArray(<<na, ns>>, "float32",
                     SwapAxes(reward_matrix_marginalized, ns, na)), g.dtype)]

InitGaret ==
  /\ \E ns \in 1..MaxStates, na \in 1..MaxActions :
       \E b \in 1..ns :
         gargs \in [num_states : {ns},
                    num_actions : {na},
                    branching_factor : {b},
                    dtype : DTypes,
                    next_states : [1..(ns * na) -> DistinctStates(ns, b)],
                    magnitudes : [1..(ns * na) -> [1..b -> MagnitudeValues]],
                    rewards : {RewardDraws(ns * na, b)}]
  /\ mdp = <<>>
  /\ mpc = "create"
  /\ action_idx = 0
  /\ result = <<>>
  /\ args = <<>> /\ pc = "idle" /\ e = 0 /\ a = 0 /\ s = 0
  /\ initial_values = <<>> /\ inner_loop_range = 0 /\ converged = FALSE
  /\ alg = NoAlg /\ it = 0 /\ i = Unbound /\ change_summary = Rat(0, 1)
  /\ changes = <<>> /\ calls = <<>> /\ reports = <<>> /\ saved = 0

(* create() up to the call of structure.MarkovDecisionProcess(...). *)
CreateGaret ==
  /\ mpc = "create"
  /\ mdp' = Create(gargs)
  /\ mpc' = "post_init"
  /\ UNCHANGED <<gargs, action_idx, result>>
  /\ UNCHANGED hvars

NextGaret == CreateGaret \/ CheckShapes \/ CheckAction \/ Constructed

SpecGaret == InitGaret /\ [][NextGaret]_vars

----------------------------------------------------------------------------
(* Properties of MarkovDecisionProcess and of create(). *)

(* A row sums to 1 within 1e-5. *)
SumsToOne(row) ==
  LET total == FSum(row)
  IN ~total.nan /\ Abs(One - total.v) <= TRANSITION_SUM_TOLERANCE

EveryRowSumsToOne(m) ==
  \A ac \in 1..m.transitions.shape[1], st \in 1..m.transitions.shape[2] :
    SumsToOne(m.transitions.data[ac][st])

(* The states of action ac (Python indices) whose rows do not sum to 1. *)
OffendingStates(m, ac) ==
  {st - 1 : st \in {x \in 1..m.transitions.shape[2] :
                      ~SumsToOne(m.transitions.data[ac + 1][x])}}

(* C6: for inputs that pass the shape and element-type checks,             *)
(* construction succeeds exactly when every (action, state) row sums to 1  *)
(* within 1e-5, and otherwise raises naming an action that has an          *)
(* offending row and exactly the offending states of that action.          *)
C6_ConstructionIffRowsSumToOne ==
  (ShapeError(mdp) = "ok" /\ mpc \in {"constructed", "raised"} /\ gargs = <<>>) =>
    /\ (mpc = "constructed") <=> EveryRowSumsToOne(mdp)
    /\ (mpc = "raised") =>
         /\ result.error = "row_sums"
         /\ result.action \in 0..(mdp.transitions.shape[1] - 1)
         /\ OffendingStates(mdp, result.action) # {}
         /\ {result.states[k] : k \in 1..Len(result.states)}
              = OffendingStates(mdp, result.action)

(* The flat row of create() that belongs to state st and action ac. *)
FlatRow(st, ac) == (st - 1) * gargs.num_actions + ac

(* Sum over the branches of (state st, action ac) of the probability the   *)
(* returned transitions give the branch's next state times its reward.     *)
BranchExpectation(st, ac) ==
  LET k == FlatRow(st, ac)
  IN FSum([x \in 1..gargs.branching_factor |->
             FMul(mdp.transitions.data[ac][st][gargs.next_states[k][x]],
                  gargs.rewards[k][x])])

(* C7: create() returns, without an exception, an MDP with transitions of  *)
(* shape A x S x S and rewards of shape A x S in the requested element     *)
(* type, every row summing to 1 within 1e-5, and rewards[a, s] the         *)
(* expectation of the branch rewards of the pair (s, a).                   *)
C7_GaretValid ==
  /\ mpc # "raised"
  /\ (mpc = "constructed") =>
       /\ mdp.transitions.shape
            = <<gargs.num_actions, gargs.num_states, gargs.num_states>>
       /\ mdp.rewards.shape = <<gargs.num_actions, gargs.num_states>>
       /\ mdp.transitions.dtype = gargs.dtype
       /\ mdp.rewards.dtype = gargs.dtype
       /\ EveryRowSumsToOne(mdp)
       /\ \A ac \in 1..gargs.num_actions, st \in 1..gargs.num_states :
            mdp.rewards.data[ac][st] = BranchExpectation(st, ac)

(* C8: in the MDP create() returns, every transition row has exactly       *)
(* branching_factor non-zero entries.                                      *)
C8_GaretSparsity ==
  (mpc = "constructed") =>
    \A ac \in 1..gargs.num_actions, st \in 1..gargs.num_states :
      Cardinality({col \in 1..gargs.num_states :
                     mdp.transitions.data[ac][st][col] # F(0)})
        = gargs.branching_factor

====
